---- MODULE Spec2Model ----
(***************************************************************************)
(* CGAL::Shape_detection_3::Plane (Plane.h): the plane primitive of the    *)
(* efficient RANSAC shape detection.                                       *)
(*                                                                         *)
(* Number model.  FT is modelled by exact real arithmetic.  Coordinates    *)
(* are integers counting units of 0.005 (200 is 1.0), and lengths count    *)
(* the same unit.  A Vector_3 / Point_3 is a record [v, q] standing for    *)
(* the vector v / sqrt(q); an FT produced by a scalar product is a record  *)
(* [n, q] standing for n / sqrt(q); the square of an FT is a rational      *)
(* [num, den].  Square roots never have to be evaluated: scaling v by      *)
(* 1/|v| gives [v, v.v].                                                   *)
(***************************************************************************)
EXTENDS Integers, Sequences, FiniteSets, TLC

VARIABLES m_normal, m_d, m_point_on_primitive, m_base1, m_base2,
          m_is_valid, m_normal_threshold, m_indices,
          out, valid_writes, hoisted

vars == <<m_normal, m_d, m_point_on_primitive, m_base1, m_base2,
          m_is_valid, m_normal_threshold, m_indices,
          out, valid_writes, hoisted>>

(***************************************************************************)
(* Bounds of the model.                                                    *)
(***************************************************************************)
MaxBatch == 2

(***************************************************************************)
(* Integer helpers.                                                        *)
(***************************************************************************)
Abs(x) == IF x < 0 THEN -x ELSE x

RECURSIVE Gcd(_, _)
Gcd(a, b) == IF b = 0 THEN Abs(a) ELSE Gcd(b, a % Abs(b))

Gcd3(t) == Gcd(Gcd(t[1], t[2]), t[3])

IDot(a, b) == a[1] * b[1] + a[2] * b[2] + a[3] * b[3]

ICross(a, b) == << a[2] * b[3] - a[3] * b[2],
                   a[3] * b[1] - a[1] * b[3],
                   a[1] * b[2] - a[2] * b[1] >>

(***************************************************************************)
(* Kernel operations on Vector_3 / Point_3 / FT.                           *)
(***************************************************************************)
Vec(x, y, z) == [v |-> <<x, y, z>>, q |-> 1]

\* p - q for two points, and of a point and a vector that are both rational
Minus(a, b) == [v |-> << a.v[1] - b.v[1], a.v[2] - b.v[2], a.v[3] - b.v[3] >>,
                q |-> 1]

cross_product(a, b) == [v |-> ICross(a.v, b.v), q |-> a.q * b.q]

\* a * b, the scalar product of two vectors
Dot(a, b) == [n |-> IDot(a.v, b.v), q |-> a.q * b.q]

FTabs(s) == [n |-> Abs(s.n), q |-> s.q]

\* -a for a vector
Opposite(a) == [v |-> << -a.v[1], -a.v[2], -a.v[3] >>, q |-> a.q]

FTneg(s) == [n |-> -s.n, q |-> s.q]

\* the square of an FT, a rational number num/den
Sq(s) == [num |-> s.n * s.n, den |-> s.q]

squared_length(a) == [num |-> IDot(a.v, a.v), den |-> a.q]

RatMul(a, b) == [num |-> a.num * b.num, den |-> a.den * b.den]

RatLess(a, b) == a.num * b.den < b.num * a.den

\* a < b for two non-negative FT, decided on their squares
NonNegLess(a2, b2) == RatLess(a2, b2)

\* x < y for two FT
FTless(x, y) ==
    IF x.q = y.q THEN x.n < y.n
    ELSE IF x.n < 0 /\ y.n >= 0 THEN TRUE
    ELSE IF x.n >= 0 /\ y.n < 0 THEN FALSE
    ELSE IF x.n >= 0 THEN x.n * x.n * y.q < y.n * y.n * x.q
    ELSE x.n * x.n * y.q > y.n * y.n * x.q

FTmin(x, y) == IF FTless(y, x) THEN y ELSE x

FTmax(x, y) == IF FTless(x, y) THEN y ELSE x

\* a * (1 / sqrt(a.squared_length())): v/sqrt(q) scaled by sqrt(q)/|v| is
\* v/|v|, kept with v primitive.  The zero vector has no direction (the code
\* never normalises it: p1 = p2 is caught by the singularity test).
Normalized(a) ==
    LET g == Gcd3(a.v)
    IN IF g = 0 THEN a
       ELSE LET w == << a.v[1] \div g, a.v[2] \div g, a.v[3] \div g >>
            IN [v |-> w, q |-> IDot(w, w)]

\* x = cross_product(a, b); x * (1 / sqrt(x.squared_length())): the positive
\* factor 1/sqrt(a.q * b.q) of the cross product cancels in the scaling
UnitCross(a, b) == Normalized([v |-> ICross(a.v, b.v), q |-> 1])

(***************************************************************************)
(* The point cloud read through Shape_base::point(i) and                   *)
(* Shape_base::normal(i).  Positions count units of 0.005 (200 is 1.0).    *)
(*   0,1,2  the sample (0,0,0),(1,0,0),(0,1,0) with normals (0,0,1)        *)
(*   3      the position of 2 with the normal (1,0,0)                      *)
(*   4      (0,0,1) with the unit normal (1,1,1)/sqrt(3)                   *)
(*   5      (0,0.005,0) with the normal (0,1,2), which is not unit         *)
(*   6      (0.02,0,0): with 0 and 5 the cross product has length 1e-4     *)
(*   7      (0,0.01,0), on the line through 0 and 5                        *)
(* No sample of the cloud has a cross product of a length strictly between *)
(* 0 and 1e-4, so the only unnormalised cross product that stays in        *)
(* m_normal is the zero vector, which is the same in every unit.           *)
(***************************************************************************)
Cloud ==
    << [p |-> Vec(0, 0, 0),   n |-> Vec(0, 0, 1)],
       [p |-> Vec(200, 0, 0), n |-> Vec(0, 0, 1)],
       [p |-> Vec(0, 200, 0), n |-> Vec(0, 0, 1)],
       [p |-> Vec(0, 200, 0), n |-> Vec(1, 0, 0)],
       [p |-> Vec(0, 0, 200), n |-> [v |-> <<1, 1, 1>>, q |-> 3]],
       [p |-> Vec(0, 1, 0),   n |-> Vec(0, 1, 2)],
       [p |-> Vec(4, 0, 0),   n |-> Vec(0, 0, 1)],
       [p |-> Vec(0, 2, 0),   n |-> Vec(0, 0, 1)] >>

Index == 0 .. (Len(Cloud) - 1)

point(i) == Cloud[i + 1].p

normal(i) == Cloud[i + 1].n

\* the values m_normal_threshold is configured with: 0.5 and 0.9
Thresholds == { [n |-> 1, q |-> 4], [n |-> 9, q |-> 100] }

\* The outer search draws the three distinct indices of a sample from one
\* cell of its spatial subdivision: the points of the plane z = 0 at
\* distances of about 1.0, the points of the plane x + y + z = 1, and the
\* points within 0.02 of the origin.
Cells == { {0, 1, 2, 3}, {1, 2, 4}, {0, 5, 6, 7} }

\* samples handed to create_shape: minimum_sample_size() indices
Samples ==
    UNION { { t \in c \X c \X c : t[1] # t[2] /\ t[1] # t[3] /\ t[2] # t[3] }
            : c \in Cells }

\* the indices the queries are asked about
QueryIndex == {1, 4}

\* non-empty index batches handed to the batch queries
Batches == UNION { [1 .. k -> QueryIndex] : k \in 1 .. MaxBatch }

\* a field no constructor has written yet; no operation reads it before
\* create_shape has written it
NoVec == [v |-> <<0, 0, 0>>, q |-> 0]

NoFT == [n |-> 0, q |-> 0]

NoOut == [op |-> "none"]

(***************************************************************************)
(* Plane::create_shape                                                     *)
(***************************************************************************)
\* 0.0001 in the unit of the unnormalised cross product: coordinates count
\* 0.005, so their products count 0.000025 and 0.0001 is 4 of them
EpsLen == 4

\* the degeneracy test with <= in the place of <
LengthBelowEps_le(c) ==
    IF \E k \in 1 .. 3 : Abs(c.v[k]) > EpsLen
    THEN FALSE
    ELSE IDot(c.v, c.v) <= EpsLen * EpsLen

\* CGAL::sqrt(m_normal.squared_length()) < (FT)0.0001, for an integer vector
LengthBelowEps(c) ==
    IF \E k \in 1 .. 3 : Abs(c.v[k]) >= EpsLen
    THEN FALSE
    ELSE IDot(c.v, c.v) < EpsLen * EpsLen

\* abs(l_v * m_normal) < m_normal_threshold * CGAL::sqrt(l_v.squared_length())
\* (both sides are non-negative, so the squares are compared)
NormalDeviates(l_v, nrm, thr) ==
    RatLess(Sq(FTabs(Dot(l_v, nrm))), RatMul(Sq(thr), squared_length(l_v)))

\* m_d = -(p1[0] * m_normal[0] + p1[1] * m_normal[1] + p1[2] * m_normal[2])
PlaneOffset(p1, nrm) == FTneg(Dot(p1, nrm))

\* the loop checking the normal of the first sample point only
RECURSIVE CheckLoop_first_only(_, _, _, _)
CheckLoop_first_only(i, s, idx, thr) ==
    IF i >= 1
    THEN [s EXCEPT !.is_valid = TRUE, !.writes = @ + 1]
    ELSE IF NormalDeviates(normal(idx[i + 1]), s.normal, thr)
    THEN [s EXCEPT !.is_valid = FALSE, !.writes = @ + 1]
    ELSE LET p1 == point(idx[1])
             p2 == point(idx[2])
             b1 == UnitCross(Minus(p1, p2), s.normal)
             b2 == UnitCross(b1, s.normal)
         IN CheckLoop_first_only(i + 1,
                      [s EXCEPT !.point_on_primitive = p1,
                                !.base1 = b1,
                                !.base2 = b2],
                      idx, thr)

\* the loop anchoring the plane at the point of the current iteration
RECURSIVE CheckLoop_anchor_i(_, _, _, _)
CheckLoop_anchor_i(i, s, idx, thr) ==
    IF i >= 3
    THEN [s EXCEPT !.is_valid = TRUE, !.writes = @ + 1]
    ELSE IF NormalDeviates(normal(idx[i + 1]), s.normal, thr)
    THEN [s EXCEPT !.is_valid = FALSE, !.writes = @ + 1]
    ELSE LET p1 == point(idx[1])
             p2 == point(idx[2])
             b1 == UnitCross(Minus(p1, p2), s.normal)
             b2 == UnitCross(b1, s.normal)
         IN CheckLoop_anchor_i(i + 1,
                      [s EXCEPT !.point_on_primitive = point(idx[i + 1]),
                                !.base1 = b1,
                                !.base2 = b2],
                      idx, thr)

\* the body of the for loop, iterations i, i+1, ..., 2, and what follows it
RECURSIVE CheckLoop(_, _, _, _)
CheckLoop(i, s, idx, thr) ==
    IF i >= 3
    THEN [s EXCEPT !.is_valid = TRUE, !.writes = @ + 1]
    ELSE IF NormalDeviates(normal(idx[i + 1]), s.normal, thr)
    THEN [s EXCEPT !.is_valid = FALSE, !.writes = @ + 1]
    ELSE LET p1 == point(idx[1])
             p2 == point(idx[2])
             b1 == UnitCross(Minus(p1, p2), s.normal)
             b2 == UnitCross(b1, s.normal)
         IN CheckLoop(i + 1,
                      [s EXCEPT !.point_on_primitive = p1,
                                !.base1 = b1,
                                !.base2 = b2],
                      idx, thr)

\* create_shape on the instance state s (a record of the fields) with the
\* sample idx; writes counts the assignments to m_is_valid
create_shape(s, idx, thr) ==
    LET p1 == point(idx[1])
        p2 == point(idx[2])
        p3 == point(idx[3])
        c  == cross_product(Minus(p1, p2), Minus(p1, p3))
        s0 == [s EXCEPT !.writes = 0]
    IN IF LengthBelowEps(c)
       THEN [s0 EXCEPT !.normal = c]
       ELSE LET nrm == Normalized(c)
            IN CheckLoop(0, [s0 EXCEPT !.normal = nrm,
                                       !.d = PlaneOffset(p1, nrm)],
                         idx, thr)

\* the variant of create_shape that sets m_point_on_primitive, m_base1 and
\* m_base2 once, after the loop, instead of in every iteration
RECURSIVE CheckOnly(_, _, _, _)
CheckOnly(i, s, idx, thr) ==
    IF i >= 3
    THEN LET p1 == point(idx[1])
             p2 == point(idx[2])
             b1 == UnitCross(Minus(p1, p2), s.normal)
             b2 == UnitCross(b1, s.normal)
         IN [s EXCEPT !.point_on_primitive = p1, !.base1 = b1, !.base2 = b2,
                      !.is_valid = TRUE, !.writes = @ + 1]
    ELSE IF NormalDeviates(normal(idx[i + 1]), s.normal, thr)
    THEN [s EXCEPT !.is_valid = FALSE, !.writes = @ + 1]
    ELSE CheckOnly(i + 1, s, idx, thr)

create_shape_hoisted(s, idx, thr) ==
    LET p1 == point(idx[1])
        p2 == point(idx[2])
        p3 == point(idx[3])
        c  == cross_product(Minus(p1, p2), Minus(p1, p3))
        s0 == [s EXCEPT !.writes = 0]
    IN IF LengthBelowEps(c)
       THEN [s0 EXCEPT !.normal = c]
       ELSE LET nrm == Normalized(c)
            IN CheckOnly(0, [s0 EXCEPT !.normal = nrm,
                                       !.d = PlaneOffset(p1, nrm)],
                         idx, thr)

(***************************************************************************)
(* The queries, as functions of the fields.                                *)
(***************************************************************************)
\* FT d = (p - m_point_on_primitive) * m_normal; return d * d;
squared_distance(p) == Sq(Dot(Minus(p, m_point_on_primitive), m_normal))

\* dists[i] for every i of the batch
squared_distance_batch(indices) ==
    [i \in 1 .. Len(indices) |->
        Sq(Dot(Minus(point(indices[i]), m_point_on_primitive), m_normal))]

\* n * m_normal without the absolute value
cos_to_normal_signed(p, n) == Dot(n, m_normal)

\* abs(n * m_normal); the point p is not used
cos_to_normal(p, n) == FTabs(Dot(n, m_normal))

cos_to_normal_batch(indices) ==
    [i \in 1 .. Len(indices) |-> FTabs(Dot(normal(indices[i]), m_normal))]

\* (u, v) of one point
Project(i) ==
    LET p == Minus(point(i), m_point_on_primitive)
    IN << Dot(p, m_base1), Dot(p, m_base2) >>

\* the loop with max[1] updated from max[0]
RECURSIVE ParametersLoop_typo(_, _, _)
ParametersLoop_typo(i, indices, r) ==
    IF i > Len(indices) THEN r
    ELSE LET uv == Project(indices[i])
         IN ParametersLoop_typo(i + 1, indices,
              [parameterSpace |-> Append(r.parameterSpace, uv),
               min |-> << FTmin(r.min[1], uv[1]), FTmin(r.min[2], uv[2]) >>,
               max |-> << FTmax(r.max[1], uv[1]), FTmax(r.max[1], uv[2]) >>])

\* the loop of parameters from position i on; r holds parameterSpace, min, max
RECURSIVE ParametersLoop(_, _, _)
ParametersLoop(i, indices, r) ==
    IF i > Len(indices) THEN r
    ELSE LET uv == Project(indices[i])
         IN ParametersLoop(i + 1, indices,
              [parameterSpace |-> Append(r.parameterSpace, uv),
               min |-> << FTmin(r.min[1], uv[1]), FTmin(r.min[2], uv[2]) >>,
               max |-> << FTmax(r.max[1], uv[1]), FTmax(r.max[2], uv[2]) >>])

parameters(indices) ==
    LET uv == Project(indices[1])
    IN ParametersLoop(2, indices,
                      [parameterSpace |-> << uv >>, min |-> uv, max |-> uv])

\* Plane_3(m_normal.x(), m_normal.y(), m_normal.z(), m_d)
to_Plane_3 == << [n |-> m_normal.v[1], q |-> m_normal.q],
                 [n |-> m_normal.v[2], q |-> m_normal.q],
                 [n |-> m_normal.v[3], q |-> m_normal.q],
                 m_d >>

\* the values info() writes into the string, in the order it writes them
info == << "Type: plane (", [n |-> m_normal.v[1], q |-> m_normal.q], ", ",
           [n |-> m_normal.v[2], q |-> m_normal.q], ", ",
           [n |-> m_normal.v[3], q |-> m_normal.q], ")x - ", m_d, "= 0",
           " #Pts: ", Len(m_indices) >>

minimum_sample_size == 3

(***************************************************************************)
(* State machine.  out is the last operation with its arguments and what   *)
(* it returned; valid_writes counts the assignments the last create_shape  *)
(* made to m_is_valid; hoisted is what a caller can see of the instance    *)
(* create_shape_hoisted makes of the same call.                            *)
(***************************************************************************)
Fields == [normal |-> m_normal, d |-> m_d,
           point_on_primitive |-> m_point_on_primitive,
           base1 |-> m_base1, base2 |-> m_base2,
           is_valid |-> m_is_valid, writes |-> valid_writes]

\* what a caller that checks is_valid first can read of an instance
Observable(s) ==
    IF s.is_valid
    THEN [is_valid |-> TRUE, normal |-> s.normal, d |-> s.d,
          point_on_primitive |-> s.point_on_primitive,
          base1 |-> s.base1, base2 |-> s.base2]
    ELSE [is_valid |-> FALSE]

\* the base state Shape_base() constructs: not valid, nothing assigned
Shape_base_init ==
    /\ m_is_valid = FALSE
    /\ m_indices = << >>
    /\ m_normal_threshold \in Thresholds

\* Plane() : Shape_base<Traits>() {}
Init ==
    /\ Shape_base_init
    /\ m_normal = NoVec
    /\ m_d = NoFT
    /\ m_point_on_primitive = NoVec
    /\ m_base1 = NoVec
    /\ m_base2 = NoVec
    /\ out = NoOut
    /\ valid_writes = 0
    /\ hoisted = Observable(Fields)

PlaneUnchanged == UNCHANGED << m_normal, m_d, m_point_on_primitive, m_base1,
                               m_base2, m_is_valid, m_normal_threshold,
                               m_indices, valid_writes, hoisted >>

CreateShape(idx) ==
    \E r \in { create_shape(Fields, idx, m_normal_threshold) } :
       /\ m_normal' = r.normal
       /\ m_d' = r.d
       /\ m_point_on_primitive' = r.point_on_primitive
       /\ m_base1' = r.base1
       /\ m_base2' = r.base2
       /\ m_is_valid' = r.is_valid
       /\ valid_writes' = r.writes
       /\ out' = [op |-> "create_shape", indices |-> idx]
       /\ UNCHANGED << m_normal_threshold, m_indices, hoisted >>

\* create_shape together with its variant, on the same instance and sample
CreateShapeBoth(idx) ==
    \E r \in { create_shape(Fields, idx, m_normal_threshold) } :
       /\ m_normal' = r.normal
       /\ m_d' = r.d
       /\ m_point_on_primitive' = r.point_on_primitive
       /\ m_base1' = r.base1
       /\ m_base2' = r.base2
       /\ m_is_valid' = r.is_valid
       /\ valid_writes' = r.writes
       /\ hoisted' = Observable(create_shape_hoisted(Fields, idx,
                                                     m_normal_threshold))
       /\ out' = [op |-> "create_shape", indices |-> idx]
       /\ UNCHANGED << m_normal_threshold, m_indices >>

\* The outer search reads a candidate only after it has checked is_valid.
SquaredDistance(i) ==
    /\ m_is_valid
    /\ out' = [op |-> "squared_distance", p |-> point(i),
               result |-> squared_distance(point(i))]
    /\ PlaneUnchanged

\* the batch form, which is not const, keeping its last signed distance in m_d
SquaredDistanceBatch_keeps_d(indices) ==
    /\ m_is_valid
    /\ out' = [op |-> "squared_distance_batch", indices |-> indices,
               dists |-> squared_distance_batch(indices)]
    /\ m_d' = Dot(Minus(point(indices[Len(indices)]), m_point_on_primitive),
                  m_normal)
    /\ UNCHANGED << m_normal, m_point_on_primitive, m_base1, m_base2,
                    m_is_valid, m_normal_threshold, m_indices, valid_writes,
                    hoisted >>

SquaredDistanceBatch(indices) ==
    /\ m_is_valid
    /\ out' = [op |-> "squared_distance_batch", indices |-> indices,
               dists |-> squared_distance_batch(indices)]
    /\ PlaneUnchanged

CosToNormal(i, n) ==
    /\ m_is_valid
    /\ out' = [op |-> "cos_to_normal", p |-> point(i), n |-> n,
               result |-> cos_to_normal(point(i), n)]
    /\ PlaneUnchanged

CosToNormalBatch(indices) ==
    /\ m_is_valid
    /\ out' = [op |-> "cos_to_normal_batch", indices |-> indices,
               angles |-> cos_to_normal_batch(indices)]
    /\ PlaneUnchanged

Parameters(indices) ==
    /\ m_is_valid
    /\ LET r == parameters(indices)
       IN out' = [op |-> "parameters", indices |-> indices,
                  parameterSpace |-> r.parameterSpace,
                  min |-> r.min, max |-> r.max]
    /\ PlaneUnchanged

ToPlane3 ==
    /\ m_is_valid
    /\ out' = [op |-> "Plane_3", result |-> to_Plane_3]
    /\ PlaneUnchanged

PlaneNormal ==
    /\ m_is_valid
    /\ out' = [op |-> "plane_normal", result |-> m_normal]
    /\ PlaneUnchanged

D ==
    /\ m_is_valid
    /\ out' = [op |-> "d", result |-> m_d]
    /\ PlaneUnchanged

Info ==
    /\ m_is_valid
    /\ out' = [op |-> "info", result |-> info]
    /\ PlaneUnchanged

MinimumSampleSize ==
    /\ out' = [op |-> "minimum_sample_size", result |-> minimum_sample_size]
    /\ PlaneUnchanged

SupportsConnectedComponent ==
    /\ out' = [op |-> "supports_connected_component", result |-> TRUE]
    /\ PlaneUnchanged

WrapsU ==
    /\ out' = [op |-> "wraps_u", result |-> FALSE]
    /\ PlaneUnchanged

WrapsV ==
    /\ out' = [op |-> "wraps_v", result |-> FALSE]
    /\ PlaneUnchanged

\* the outer search assigns to the candidate a point that lies on it, whose
\* normal agrees with it and that is not assigned yet
Assign(i) ==
    /\ m_is_valid
    /\ squared_distance(point(i)).num = 0
    /\ ~FTless(cos_to_normal(point(i), normal(i)), m_normal_threshold)
    /\ \A k \in 1 .. Len(m_indices) : m_indices[k] # i
    /\ m_indices' = Append(m_indices, i)
    /\ out' = [op |-> "assign", index |-> i]
    /\ UNCHANGED << m_normal, m_d, m_point_on_primitive, m_base1, m_base2,
                    m_is_valid, m_normal_threshold, valid_writes, hoisted >>

Next ==
    \/ \E idx \in Samples : CreateShape(idx)
    \/ \E i \in QueryIndex : SquaredDistance(i)
    \/ \E b \in Batches : SquaredDistanceBatch(b)
    \/ \E i \in QueryIndex : \E n \in {normal(i), Opposite(normal(i))} : CosToNormal(i, n)
    \/ \E b \in Batches : CosToNormalBatch(b)
    \/ \E b \in Batches : Parameters(b)
    \/ ToPlane3
    \/ PlaneNormal
    \/ D
    \/ Info
    \/ MinimumSampleSize
    \/ SupportsConnectedComponent
    \/ WrapsU
    \/ WrapsV
    \/ \E i \in QueryIndex : Assign(i)

Spec == Init /\ [][Next]_vars

\* the instance fitted by create_shape and by its variant side by side
NextBoth == \E idx \in Samples : CreateShapeBoth(idx)

SpecBoth == Init /\ [][NextBoth]_vars

(***************************************************************************)
(* Vocabulary of the properties, stated on the numbers themselves and not  *)
(* through the operators of create_shape.                                  *)
(***************************************************************************)
QueryOps == { "squared_distance", "squared_distance_batch", "cos_to_normal",
              "cos_to_normal_batch", "parameters", "Plane_3", "plane_normal",
              "d", "info", "minimum_sample_size",
              "supports_connected_component", "wraps_u", "wraps_v" }

\* cross(p1 - p2, p1 - p3) of a sample, in units of 0.000025
SampleCross(idx) ==
    ICross(Minus(point(idx[1]), point(idx[2])).v,
           Minus(point(idx[1]), point(idx[3])).v)

\* |cross(p1 - p2, p1 - p3)| >= 1e-4, that is 4 units
CrossAtLeastEps(idx) ==
    LET c == SampleCross(idx)
    IN \/ \E k \in 1 .. 3 : Abs(c[k]) >= 4
       \/ IDot(c, c) >= 16

\* |n . nrm| >= thr * |n|
Consistent(n, nrm, thr) ==
    IDot(n.v, nrm.v) * IDot(n.v, nrm.v) * thr.q
        >= thr.n * thr.n * IDot(n.v, n.v) * nrm.q

IsUnit(x) == x.q > 0 /\ IDot(x.v, x.v) = x.q

Orthogonal(x, y) == IDot(x.v, y.v) = 0

\* x + y = 0 for two FT
SumIsZero(x, y) ==
    IF x.q = y.q THEN x.n + y.n = 0
    ELSE x.n * y.n <= 0 /\ x.n * x.n * y.q = y.n * y.n * x.q

\* x <= y for two FT
Leq(x, y) ==
    IF x.q = y.q THEN x.n <= y.n
    ELSE IF x.n <= 0 /\ y.n >= 0 THEN TRUE
    ELSE IF x.n >= 0 /\ y.n <= 0 THEN x.n = 0 /\ y.n = 0
    ELSE IF x.n > 0 THEN x.n * x.n * y.q <= y.n * y.n * x.q
    ELSE x.n * x.n * y.q >= y.n * y.n * x.q

\* m_point_on_primitive + u * m_base1 + v * m_base2 = p, for (u, v) = uv
\* (u and v carry the square roots of m_base1 and m_base2)
Reconstructs(uv, p) ==
    /\ uv[1].q = m_base1.q
    /\ uv[2].q = m_base2.q
    /\ \A k \in 1 .. 3 :
          (p.v[k] - m_point_on_primitive.v[k]) * m_base1.q * m_base2.q
            = uv[1].n * m_base1.v[k] * m_base2.q
              + uv[2].n * m_base2.v[k] * m_base1.q

OnPlane(p) == squared_distance(p).num = 0

(***************************************************************************)
(* C1.  A sample whose cross product has length at least 1e-4 and whose    *)
(* three normals are consistent with the fitted normal is accepted:        *)
(* is_valid is true, the normal has unit length, the offset is             *)
(* -(normal . p1) and the three sample points are at squared distance 0.   *)
(* For (0,0,0),(1,0,0),(0,1,0) with normals (0,0,1) and threshold 0.9 the  *)
(* normal is (0,0,+-1) and the offset 0.                                   *)
(***************************************************************************)
C1_AcceptedSample ==
    /\ ( /\ out.op = "create_shape"
         /\ CrossAtLeastEps(out.indices)
         /\ \A k \in 1 .. 3 : Consistent(normal(out.indices[k]), m_normal,
                                         m_normal_threshold) )
       => /\ m_is_valid
          /\ IsUnit(m_normal)
          /\ SumIsZero(m_d, Dot(point(out.indices[1]), m_normal))
          /\ \A k \in 1 .. 3 : squared_distance(point(out.indices[k])).num = 0
    /\ ( /\ out.op = "create_shape"
         /\ out.indices = <<0, 1, 2>>
         /\ m_normal_threshold = [n |-> 9, q |-> 100] )
       => /\ m_is_valid
          /\ m_normal \in { Vec(0, 0, 1), Vec(0, 0, -1) }
          /\ m_d.n = 0

\* the sample (1,0,0),(0,1,0),(0,0,1) is accepted with threshold 0.5: its
\* plane does not pass through the origin
C1_Witness ==
    /\ out.op = "create_shape"
    /\ out.indices = <<1, 2, 4>>
    /\ m_is_valid
    /\ m_d.n # 0

(***************************************************************************)
(* C2.  After create_shape on a sample whose cross product is shorter      *)
(* than 1e-4, is_valid is false, whatever the instance was before.         *)
(***************************************************************************)
C2_DegenerateIsInvalid ==
    (out.op = "create_shape" /\ ~CrossAtLeastEps(out.indices)) => ~m_is_valid

(***************************************************************************)
(* C3.  A non-degenerate sample one of whose three normals fails the       *)
(* consistency test, in whichever position, is rejected, by one            *)
(* assignment of false.                                                    *)
(***************************************************************************)
C3_InconsistentIsInvalid ==
    ( /\ out.op = "create_shape"
      /\ CrossAtLeastEps(out.indices)
      /\ \E k \in 1 .. 3 : ~Consistent(normal(out.indices[k]), m_normal,
                                       m_normal_threshold) )
    => (~m_is_valid /\ valid_writes = 1)

\* only the third normal of the sample deviates
C3_Witness ==
    /\ out.op = "create_shape"
    /\ out.indices = <<0, 1, 3>>
    /\ ~m_is_valid
    /\ valid_writes = 1

(***************************************************************************)
(* C4.  Whenever is_valid is true: the normal has unit length,             *)
(* normal . anchor_point + offset = 0, basis1 and basis2 have unit length  *)
(* and are orthogonal to each other and to the normal, and anchor_point    *)
(* is the first point of the sample.                                       *)
(***************************************************************************)
C4_ValidInvariant ==
    m_is_valid =>
        /\ IsUnit(m_normal)
        /\ SumIsZero(m_d, Dot(m_point_on_primitive, m_normal))
        /\ IsUnit(m_base1)
        /\ IsUnit(m_base2)
        /\ Orthogonal(m_base1, m_base2)
        /\ Orthogonal(m_base1, m_normal)
        /\ Orthogonal(m_base2, m_normal)
        /\ (out.op = "create_shape"
              => m_point_on_primitive = point(out.indices[1]))

(***************************************************************************)
(* C5.  Every call of create_shape assigns is_valid exactly once.          *)
(***************************************************************************)
C5_OneAssignmentPerCall ==
    out.op = "create_shape" => valid_writes = 1

(***************************************************************************)
(* C6.  For a valid plane, parameters writes one pair (u, v) per index of  *)
(* the batch, in batch order, with u = (p - anchor_point) . basis1 and     *)
(* v = (p - anchor_point) . basis2; min and max enclose every written      *)
(* pair componentwise and each of their four components is attained.       *)
(***************************************************************************)
C6_Parameters ==
    out.op = "parameters" =>
        LET ps == out.parameterSpace
            N  == Len(out.indices)
        IN /\ Len(ps) = N
           /\ \A i \in 1 .. N :
                 LET rel == Minus(point(out.indices[i]), m_point_on_primitive)
                 IN /\ ps[i][1].n = IDot(rel.v, m_base1.v)
                    /\ ps[i][1].q = m_base1.q
                    /\ ps[i][2].n = IDot(rel.v, m_base2.v)
                    /\ ps[i][2].q = m_base2.q
           /\ \A k \in 1 .. 2 :
                 /\ \A i \in 1 .. N : /\ Leq(out.min[k], ps[i][k])
                                      /\ Leq(ps[i][k], out.max[k])
                 /\ \E i \in 1 .. N : ps[i][k] = out.min[k]
                 /\ \E i \in 1 .. N : ps[i][k] = out.max[k]

\* a batch of two points whose first one holds the maximum of u and the
\* second one the minimum
C6_Witness ==
    /\ out.op = "parameters"
    /\ Len(out.indices) = 2
    /\ out.parameterSpace[1][1] = out.max[1]
    /\ out.parameterSpace[2][1] = out.min[1]
    /\ out.min[1] # out.max[1]

(***************************************************************************)
(* C7.  For a valid plane and a point p lying on it, the pair (u, v)       *)
(* written by parameters satisfies                                         *)
(* anchor_point + u * basis1 + v * basis2 = p.                             *)
(***************************************************************************)
C7_RoundTrip ==
    out.op = "parameters" =>
        \A i \in 1 .. Len(out.indices) :
            OnPlane(point(out.indices[i]))
                => Reconstructs(out.parameterSpace[i], point(out.indices[i]))

(***************************************************************************)
(* C8.  cos_to_normal returns |n . normal|, which lies in [0, 1] for a     *)
(* unit n and a unit plane normal and is the same for n and -n; the batch  *)
(* form writes the value of the single form for each index, in order.      *)
(***************************************************************************)
C8_CosToNormal ==
    /\ out.op = "cos_to_normal" =>
          /\ out.result.n = Abs(IDot(out.n.v, m_normal.v))
          /\ out.result.q = out.n.q * m_normal.q
          /\ (IsUnit(out.n) /\ IsUnit(m_normal))
                => (out.result.n >= 0
                    /\ out.result.n * out.result.n <= out.result.q)
          /\ cos_to_normal(out.p, Opposite(out.n)) = out.result
    /\ out.op = "cos_to_normal_batch" =>
          /\ Len(out.angles) = Len(out.indices)
          /\ \A i \in 1 .. Len(out.indices) :
                /\ out.angles[i].n
                     = Abs(IDot(normal(out.indices[i]).v, m_normal.v))
                /\ out.angles[i].q = normal(out.indices[i]).q * m_normal.q
                /\ out.angles[i] = cos_to_normal(point(out.indices[i]),
                                                 normal(out.indices[i]))

\* a unit normal at an angle strictly between 0 and 90 degrees to a unit
\* plane normal
C8_Witness ==
    /\ out.op = "cos_to_normal"
    /\ IsUnit(out.n)
    /\ IsUnit(m_normal)
    /\ out.result.n > 0
    /\ out.result.n * out.result.n < out.result.q

(***************************************************************************)
(* C9.  No query changes normal, offset, anchor_point, basis1, basis2 or   *)
(* is_valid, and neither create_shape nor a query changes the assigned     *)
(* point set.                                                              *)
(***************************************************************************)
C9_QueriesAreReadOnly ==
    [][ /\ out'.op \in QueryOps
           => UNCHANGED <<m_normal, m_d, m_point_on_primitive, m_base1,
                          m_base2, m_is_valid>>
        /\ out'.op \in QueryOps \cup { "create_shape" }
           => UNCHANGED m_indices ]_vars

\* a batch query answered by a plane that already holds an assigned point
C9_Witness ==
    /\ out.op = "squared_distance_batch"
    /\ m_indices # << >>
    /\ m_is_valid

(***************************************************************************)
(* C10.  create_shape and the variant that computes anchor_point, basis1   *)
(* and basis2 once after the loop end with the same is_valid and, when     *)
(* is_valid is true, with the same normal, offset, anchor_point, basis1    *)
(* and basis2.                                                             *)
(***************************************************************************)
C10_HoistingIsEquivalent ==
    hoisted = Observable(Fields)

\* both variants accepted a sample
C10_Witness ==
    /\ out.op = "create_shape"
    /\ m_is_valid
    /\ hoisted.is_valid
    /\ IsUnit(hoisted.base1)

====
